---------------------------- MODULE Spec2Model ----------------------------
(***************************************************************************)
(* A model of the analysis pipeline of GutenbergService                    *)
(* (src/src/gutenberg/gutenberg.service.ts): the segmenter                 *)
(* splitTextIntoChunks, the registry fold of buildCharacterRegistry, the   *)
(* merge engine mergeResults and the orchestration of createStreaming.     *)
(*                                                                         *)
(* Strings.  A text is a JavaScript string over the three kinds of code    *)
(* unit the segmenter distinguishes: '.', '\n' and any other character.    *)
(* It is held by its length and the 0-based positions of its '.' and '\n'  *)
(* code units; every other position holds a letter.  Two texts are the     *)
(* same string exactly when the records are equal.                         *)
(***************************************************************************)
EXTENDS Integers, Sequences, FiniteSets, TLC

VARIABLES
    \* createStreaming (service.ts 44-119), one run
    runpc,          \* where the run is: "start", or the await it is suspended at
                    \* ("fetch", "discover", "analyze", "pace"), or "complete",
                    \* "errored"
    fetched,        \* fetchBook has returned the book
    bookText,       \* the local `bookText`
    pending,        \* the oracle calls issued and not yet resolved
    resolved,       \* what the resolved calls of the current fan-out returned
    runRegistry,    \* the local `characterRegistry` of createStreaming
    runChunks,      \* the local `chunks`
    batchStart,     \* the loop variable `i`
    runResults,     \* the local `allResults`
    events,         \* history: the updates sent to the session's room, in order
    \* mergeResults as createStreaming calls it (service.ts 84-110, 351-409)
    mergeRegistry,  \* the argument `characterRegistry`
    allResults,     \* the array `allResults`, as it is now
    received,       \* history: the window results as the oracle returned them
    snapshots,      \* history: the last two values mergeResults returned, each
                    \* with the number of window results it was called on
    merges,         \* history: the number of calls of mergeResults so far
    \* buildCharacterRegistry (service.ts 144-179)
    characterRegistry,  \* the local `characterRegistry`, in insertion order
    folded,             \* history: the candidates of allCharacters folded so far
    filteredRegistry,   \* the registry returned (<<>> until then)
    regpc,              \* "fold" (in the for loop of line 149), "done" (returned)
    \* splitTextIntoChunks (service.ts 412-434)
    text,       \* the argument `text`
    W,          \* this.CHUNK_SIZE as the segmenter reads it
    O,          \* this.OVERLAP_SIZE as the segmenter reads it
    start,      \* the local `start`
    chunks,     \* the local `chunks`: the windows pushed so far
    spans,      \* history: <<start, end>> of every iteration, in order
    segpc,      \* "idle" (not called), "loop" (at the while test), "done" (returned)
    \* GutenbergController.analyzeStreaming and the gateway's rooms
    clock,      \* what Date.now() returns now
    requests,   \* history: the requests handled, each with its session key
    published   \* history: the updates emitted, each with its room and its run

segVars == <<text, W, O, start, chunks, spans, segpc>>

regVars == <<characterRegistry, folded, filteredRegistry, regpc>>

mergeVars == <<mergeRegistry, allResults, received, snapshots, merges>>

runVars == <<runpc, fetched, bookText, pending, resolved, runRegistry,
             runChunks, batchStart, runResults, events>>

ctlVars == <<clock, requests, published>>

vars == <<runVars, mergeVars, regVars, segVars, ctlVars>>

-----------------------------------------------------------------------------
(* Bounds of the model *)

\* Every text of at most MaxLen characters is segmented under the small
\* configurations.
MaxLen == 8

\* The while loop of splitTextIntoChunks is followed for at most MaxIter
\* iterations (it need not terminate under every configuration).
MaxIter == 12

\* buildCharacterRegistry folds at most MaxCands candidates.
MaxCands == 3

\* At most MaxResults window results are accumulated in allResults.
MaxResults == 2

\* mergeResults is called at most MaxMerges times on one allResults.
MaxMerges == 3

\* The clock is followed up to the reading MaxClock.
MaxClock == 11

\* At most MaxRequests analysis-start requests are handled.
MaxRequests == 3

\* At most MaxUpdates updates are emitted by the runs started.
MaxUpdates == 4

-----------------------------------------------------------------------------
(* Program constants *)

CHUNK_SIZE == 6000

OVERLAP_SIZE == 300

BATCH_SIZE == 3

\* numSamples, the second argument of getSampleChunks (line 133).
NUM_SAMPLES == 3

\* chunkSize of getSampleChunks (line 183).
SAMPLE_SIZE == 8000

-----------------------------------------------------------------------------
(* Helpers *)

Max(S) == CHOOSE x \in S : \A y \in S : y <= x

Min(S) == CHOOSE x \in S : \A y \in S : x <= y

\* Op applied to the value of `value`, which is computed once, before Op is
\* entered, as JavaScript passes arguments and carries a loop's state.
ByValue(value, Op(_)) == CHOOSE out \in { Op(v) : v \in {value} } : TRUE

-----------------------------------------------------------------------------
(* Strings *)

\* String.prototype.slice(from, to) for 0 <= from: `to` is clamped to the
\* length, and an empty string results when from >= to.
Slice(t, from, to) ==
    LET e == Min({to, t.len})
        n == IF e > from THEN e - from ELSE 0
    IN  [len |-> n,
         dot |-> {i - from : i \in {j \in t.dot : j >= from /\ j < from + n}},
         nl  |-> {i - from : i \in {j \in t.nl : j >= from /\ j < from + n}}]

\* text.lastIndexOf('.', pos): the greatest index <= pos holding '.', or -1.
LastIndexOfDot(t, pos) ==
    Max({-1} \cup {i \in t.dot : i <= pos})

\* text.lastIndexOf('\n\n', pos): the greatest index <= pos at which the
\* two-character string '\n\n' starts, or -1.
LastIndexOfPara(t, pos) ==
    Max({-1} \cup {i \in t.nl : i + 1 \in t.nl /\ i <= pos})

\* Every string of length n over the three kinds of character.
TextsOfLen(n) ==
    UNION { { [len |-> n, dot |-> d, nl |-> m] : m \in SUBSET ((0..(n-1)) \ d) }
            : d \in SUBSET (0..(n-1)) }

-----------------------------------------------------------------------------
(* Names *)

\* A name or a description is a JavaScript string held as the sequence of
\* its characters.
Capulet == <<"C", "a", "p", "u", "l", "e", "t">>

LadyCapulet == <<"L", "a", "d", "y", " ">> \o Capulet

LordCapulet == <<"L", "o", "r", "d", " ">> \o Capulet

capuletSpace == <<"c", "a", "p", "u", "l", "e", "t", " ">>

Romeo == <<"R", "o", "m", "e", "o">>

\* String.prototype.toLowerCase, on the letters the names are written in.
LowerChar(c) ==
    CASE c = "C" -> "c"
      [] c = "L" -> "l"
      [] c = "R" -> "r"
      [] OTHER -> c

ToLowerCase(s) == [i \in 1..Len(s) |-> LowerChar(s[i])]

\* String.prototype.trim: the string without its leading and trailing blanks.
Trim(s) ==
    LET inked == {i \in 1..Len(s) : s[i] # " "}
    IN  IF inked = {} THEN <<>> ELSE SubSeq(s, Min(inked), Max(inked))

\* a.includes(b): b occurs in a as a substring.
Includes(a, b) ==
    \E i \in 0..(Len(a) - Len(b)) : SubSeq(a, i + 1, i + Len(b)) = b

\* The set of the elements of s.split(' ') that are longer than two
\* characters: the maximal blank-free substrings of s of length > 2.
LongWords(s) ==
    { SubSeq(s, i, j) : <<i, j>> \in
        { ij \in (1..Len(s)) \X (1..Len(s)) :
            /\ ij[2] - ij[1] + 1 > 2
            /\ \A k \in ij[1]..ij[2] : s[k] # " "
            /\ (ij[1] = 1 \/ s[ij[1] - 1] = " ")
            /\ (ij[2] = Len(s) \/ s[ij[2] + 1] = " ") } }

-----------------------------------------------------------------------------
(* The registry builder: getCanonicalName, areNamesSimilar and the fold of
   buildCharacterRegistry *)

\* areNamesSimilar(name1, name2), lines 271-286.
areNamesSimilar(name1, name2) ==
    \E n1 \in {ToLowerCase(name1)}, n2 \in {ToLowerCase(name2)} :
        \/ n1 = n2
        \/ Includes(n1, n2)
        \/ Includes(n2, n1)
        \/ LongWords(n1) \cap LongWords(n2) # {}

\* The index in the registry (a sequence of entries in insertion order, as
\* Object.entries lists them) of the entry with this key, or 0.
IndexOfKey(reg, key) ==
    IF \E i \in 1..Len(reg) : reg[i].name = key
    THEN CHOOSE i \in 1..Len(reg) : reg[i].name = key
    ELSE 0

\* What one entry decides in the loop of getCanonicalName (lines 253-266):
\* a name to return, or <<>> wrapped as "none" to go on to the next entry.
EntryVerdict(cleanName, entry) ==
    IF \E k \in 1..Len(entry.aliases) :
           ToLowerCase(entry.aliases[k]) = ToLowerCase(cleanName)
    THEN [found |-> TRUE, name |-> entry.name]
    ELSE IF areNamesSimilar(cleanName, entry.name)
         THEN [found |-> TRUE,
               name |-> IF Len(cleanName) > Len(entry.name)
                        THEN cleanName ELSE entry.name]
         ELSE [found |-> FALSE, name |-> <<>>]

\* getCanonicalName(name, existingRegistry), lines 249-269: the verdict of
\* the first entry, in insertion order, that has one; else the trimmed name.
getCanonicalName(name, existingRegistry) ==
    ByValue(Trim(name), LAMBDA cleanName :
        LET hits == {i \in 1..Len(existingRegistry) :
                        EntryVerdict(cleanName, existingRegistry[i]).found}
        IN  IF hits = {} THEN cleanName
            ELSE EntryVerdict(cleanName, existingRegistry[Min(hits)]).name)

\* The body of the for loop of buildCharacterRegistry, lines 150-167: the
\* registry after folding candidate char into it.
FoldCandidate(reg, char) ==
    ByValue(getCanonicalName(char.name, reg), LAMBDA canonicalName :
    ByValue(IndexOfKey(reg, canonicalName), LAMBDA i :
        IF i = 0
        THEN Append(reg, [name        |-> canonicalName,
                          aliases     |-> <<char.name>>,
                          description |-> char.description,
                          mentions    |-> char.mentions])
        ELSE [reg EXCEPT
                ![i].aliases =
                    IF \E k \in 1..Len(@) : @[k] = char.name
                    THEN @ ELSE Append(@, char.name),
                ![i].mentions = @ + char.mentions,
                ![i].description =
                    IF Len(char.description) > Len(@)
                    THEN char.description ELSE @]))

\* The least number of discovery mentions an entry is kept with (line 173).
MinMentions == 3

\* Lines 171-176: the entries with at least MinMentions mentions, in order.
FilterRegistry(reg) ==
    SelectSeq(reg, LAMBDA e : e.mentions >= MinMentions)

\* The candidates the discovery oracle may propose.
CandidateNames == {Capulet, LadyCapulet, LordCapulet, capuletSpace, Romeo}

Descriptions == { <<"d">>, <<"d", "d">> }

Candidates ==
    [name : CandidateNames, mentions : {1, 4, 5}, description : Descriptions]

RegParked ==
    /\ characterRegistry = <<>>
    /\ folded = <<>>
    /\ filteredRegistry = <<>>
    /\ regpc = "parked"

\* Line 146: the empty registry, before the first candidate.
RegStart ==
    /\ characterRegistry = <<>>
    /\ folded = <<>>
    /\ filteredRegistry = <<>>
    /\ regpc = "fold"

\* Lines 149-168: the loop takes the next candidate of allCharacters.
RegFold ==
    /\ regpc = "fold"
    /\ Len(folded) < MaxCands
    /\ \E char \in Candidates :
          /\ characterRegistry' = FoldCandidate(characterRegistry, char)
          /\ folded' = Append(folded, char)
    /\ UNCHANGED <<filteredRegistry, regpc>>
    /\ UNCHANGED <<runVars, mergeVars, segVars, ctlVars>>

\* Lines 170-179: allCharacters is exhausted; the filtered registry is
\* returned.
RegReturn ==
    /\ regpc = "fold"
    /\ filteredRegistry' = FilterRegistry(characterRegistry)
    /\ regpc' = "done"
    /\ UNCHANGED <<characterRegistry, folded>>
    /\ UNCHANGED <<runVars, mergeVars, segVars, ctlVars>>

-----------------------------------------------------------------------------
(* The merge engine: mergeResults *)

\* [...new Set(xs)]: the distinct elements of xs in order of first occurrence.
DedupNone(xs) == xs

Dedup(xs) ==
    LET firsts == {i \in 1..Len(xs) : \A j \in 1..(i - 1) : xs[j] # xs[i]}
        rank(i) == Cardinality({j \in firsts : j <= i})
    IN  [p \in 1..Cardinality(firsts) |->
            xs[CHOOSE i \in firsts : rank(i) = p]]

\* Array.prototype.sort((a, b) => key(b) - key(a)): the elements by
\* descending key, elements of equal key in their former order (the sort is
\* stable).  keys[i] is the key of xs[i].
SortDescending(xs, keys) ==
    LET rank(i) ==
            Cardinality({j \in 1..Len(xs) : keys[j] > keys[i]})
            + Cardinality({j \in 1..i : keys[j] = keys[i]})
    IN  [p \in 1..Len(xs) |-> xs[CHOOSE i \in 1..Len(xs) : rank(i) = p]]

\* Lines 356-363: the working character map, one entry per registry entry in
\* registry order, mentions reset to 0.
InitialCharacterMap(reg) ==
    [i \in 1..Len(reg) |->
        [name        |-> reg[i].name,
         mentions    |-> 0,
         description |-> reg[i].description,
         aliases     |-> reg[i].aliases]]

\* characterMap.has(name), for the names of the registry `reg`.
Registered(reg, name) == \E i \in 1..Len(reg) : reg[i].name = name

\* Lines 368-374: the character map after one reported character.
\* `char.mentions || 1` is 1 when the count is 0.
MergeCharacter(cmap, char) ==
    [i \in 1..Len(cmap) |->
        IF cmap[i].name = char.name
        THEN [cmap[i] EXCEPT
                !.mentions = @ + (IF char.mentions = 0 THEN 1 ELSE char.mentions),
                !.description =
                    IF Len(char.description) > Len(@)
                    THEN char.description ELSE @]
        ELSE cmap[i]]

\* Lines 366-376: the character map after every character of every result.
RECURSIVE MergeCharacters(_, _)
MergeCharacters(cmap, chars) ==
    IF chars = <<>> THEN cmap
    ELSE ByValue(MergeCharacter(cmap, Head(chars)),
                 LAMBDA next : MergeCharacters(next, Tail(chars)))

\* `${interaction.source}-${interaction.target}` (line 386).
InteractionKey(source, target) == source \o <<"-">> \o target

\* The weight of an entry after a further observation (line 390).
AddWeightOverwrite(old, observed) == observed

AddWeight(old, observed) == old + observed

\* Line 382: the interaction is kept.
EndpointsEitherRegistered(reg, inter) ==
    Registered(reg, inter.source) \/ Registered(reg, inter.target)

EndpointsRegistered(reg, inter) ==
    Registered(reg, inter.source) /\ Registered(reg, inter.target)

\* Lines 380-395: one interaction of one result.  st.imap is interactionMap
\* in insertion order; st.results is the array `results`, whose interaction
\* objects the loop reads and whose contexts arrays it can write.  An entry
\* made by `{ ...interaction }` (line 394) is a shallow copy: its contexts is
\* the very array of results[r].interactions[i], recorded as
\* shared = <<r, i>>, until line 392 gives the entry an array of its own
\* (shared = <<>>).  The push of line 391 goes to whichever array the entry
\* holds.
MergeInteraction(st, reg, r, i) ==
    ByValue(st.results[r].interactions[i], LAMBDA inter :
    ByValue(InteractionKey(inter.source, inter.target), LAMBDA key :
    ByValue({k \in 1..Len(st.imap) : st.imap[k].key = key}, LAMBDA hit :
        IF ~EndpointsRegistered(reg, inter) THEN st
        ELSE IF hit = {}
        THEN [st EXCEPT !.imap = Append(@,
                [key      |-> key,
                 source   |-> inter.source,
                 target   |-> inter.target,
                 weight   |-> inter.weight,
                 contexts |-> inter.contexts,
                 shared   |-> <<r, i>>])]
        ELSE LET k        == CHOOSE x \in hit : TRUE
                 existing == st.imap[k]
                 pushed   == existing.contexts \o inter.contexts
             IN  [imap |-> [st.imap EXCEPT
                              ![k].weight   = AddWeight(@, inter.weight),
                              ![k].contexts = Dedup(pushed),
                              ![k].shared   = <<>>],
                  results |->
                      IF existing.shared = <<>> THEN st.results
                      ELSE [st.results EXCEPT
                              ![existing.shared[1]].interactions
                                  [existing.shared[2]].contexts = pushed]])))

\* The places <<r, i>> of the interactions of `results`, in the order the
\* two loops of lines 379-380 visit them.
RECURSIVE InteractionPlaces(_, _)
InteractionPlaces(results, r) ==
    IF r > Len(results) THEN <<>>
    ELSE [i \in 1..Len(results[r].interactions) |-> <<r, i>>]
         \o InteractionPlaces(results, r + 1)

RECURSIVE MergeInteractions(_, _, _)
MergeInteractions(st, reg, places) ==
    IF places = <<>> THEN st
    ELSE ByValue(MergeInteraction(st, reg, Head(places)[1], Head(places)[2]),
                 LAMBDA next : MergeInteractions(next, reg, Tail(places)))

\* Every reported character of every result, in order (lines 366-367).
RECURSIVE AllCharacters(_)
AllCharacters(results) ==
    IF results = <<>> THEN <<>>
    ELSE Head(results).characters \o AllCharacters(Tail(results))

\* mergeResults(results, characterRegistry), lines 351-409: the value
\* returned (out) and the array `results` as the call leaves it.
mergeResults(results, reg) ==
    ByValue(MergeCharacters(InitialCharacterMap(reg), AllCharacters(results)),
            LAMBDA cmap :
    ByValue(MergeInteractions([imap |-> <<>>, results |-> results], reg,
                              InteractionPlaces(results, 1)),
            LAMBDA st :
    ByValue(SelectSeq(cmap, LAMBDA c : c.mentions > 0),
            LAMBDA active :
    ByValue([k \in 1..Len(st.imap) |->
                [source   |-> st.imap[k].source,
                 target   |-> st.imap[k].target,
                 weight   |-> st.imap[k].weight,
                 contexts |-> st.imap[k].contexts]],
            LAMBDA inters :
        [out |->
            [characters |->
                SortDescending(active,
                    [i \in 1..Len(active) |-> active[i].mentions]),
             interactions |->
                SortDescending(inters,
                    [i \in 1..Len(inters) |-> inters[i].weight])],
         results |-> st.results]))))

\* The names the merge is exercised with: two registered names, one of
\* which contains the '-' of the interaction key, and a name that is in no
\* registry.
nameA == <<"a">>

nameAA == <<"a", "-", "a">>

nameZ == <<"z">>

RegistryEntry(name) ==
    [name |-> name, aliases |-> <<name>>, description |-> <<"d">>, mentions |-> 4]

MergeRegistries ==
    { <<RegistryEntry(nameA), RegistryEntry(nameAA)>>, <<RegistryEntry(nameA)>> }

\* What the analysis oracle may report in one window.
CharacterLists ==
    { <<>>,
      <<[name |-> nameA, mentions |-> 2, description |-> <<"d", "d">>]>>,
      <<[name |-> nameAA, mentions |-> 0, description |-> <<>>],
        [name |-> nameZ, mentions |-> 5, description |-> <<"d", "d">>]>> }

\* The interaction that windows report again and again.
Recurring ==
    [source |-> nameA, target |-> nameAA, weight |-> 1, contexts |-> <<"x">>]

Interactions ==
    { Recurring,
      [source |-> nameA,  target |-> nameAA, weight |-> 3, contexts |-> <<"y", "x">>],
      [source |-> nameAA, target |-> nameA,  weight |-> 2, contexts |-> <<"x", "x">>],
      [source |-> nameA,  target |-> nameZ,  weight |-> 2, contexts |-> <<"x">>] }

InteractionLists ==
    { <<>> } \cup { <<a>> : a \in Interactions }
             \cup { <<Recurring, b>> : b \in Interactions }

WindowResults ==
    [characters : CharacterLists, interactions : InteractionLists]

MergeParked ==
    /\ mergeRegistry = <<>>
    /\ allResults = <<>>
    /\ received = <<>>
    /\ snapshots = <<>>
    /\ merges = 0

MergeStart ==
    /\ mergeRegistry \in MergeRegistries
    /\ allResults = <<>>
    /\ received = <<>>
    /\ snapshots = <<>>
    /\ merges = 0

\* Line 85: a window result is pushed onto allResults.
MergePush ==
    /\ Len(allResults) < MaxResults
    /\ \E result \in WindowResults :
          /\ allResults' = Append(allResults, result)
          /\ received' = Append(received, result)
    /\ UNCHANGED <<mergeRegistry, snapshots, merges>>
    /\ UNCHANGED <<runVars, regVars, segVars, ctlVars>>

\* Lines 88 and 109: mergeResults(allResults, characterRegistry) is called.
MergeCall ==
    /\ merges < MaxMerges
    /\ LET m == mergeResults(allResults, mergeRegistry)
           s == [n |-> Len(allResults), out |-> m.out]
       IN  /\ allResults' = m.results
           /\ snapshots' = IF snapshots = <<>> THEN <<s>>
                           ELSE <<snapshots[Len(snapshots)], s>>
    /\ merges' = merges + 1
    /\ UNCHANGED <<mergeRegistry, received>>
    /\ UNCHANGED <<runVars, regVars, segVars, ctlVars>>

-----------------------------------------------------------------------------
(* The segmenter: splitTextIntoChunks *)

\* The pairs <<CHUNK_SIZE, OVERLAP_SIZE>> the segmenter is run under: the
\* service's own pair, and small pairs with 0 < O < W under which every text
\* up to MaxLen is tried.  <<4, 1>> and <<3, 2>> have O <= 0.7 W like the
\* service's pair; <<7, 6>> has 0.7 W < O < W.
SmallConfigs == { <<4, 1>>, <<3, 2>>, <<7, 6>> }

\* Texts tried under the service's own pair: lengths around one and two
\* windows, with '.' and '\n\n' at the positions the snap test separates.
ServiceLens ==
    { CHUNK_SIZE - OVERLAP_SIZE, CHUNK_SIZE - OVERLAP_SIZE + 1, CHUNK_SIZE - 1,
      CHUNK_SIZE, CHUNK_SIZE + 1, 2 * CHUNK_SIZE - OVERLAP_SIZE, 2 * CHUNK_SIZE }

ServiceDots ==
    { (7 * CHUNK_SIZE) \div 10, (7 * CHUNK_SIZE) \div 10 + 1, CHUNK_SIZE }

ServiceTexts ==
    { [len |-> n,
       dot |-> {i \in d : i < n},
       nl  |-> {i \in m : i < n}] :
        n \in ServiceLens,
        d \in SUBSET ServiceDots,
        m \in { {}, {CHUNK_SIZE - 2, CHUNK_SIZE - 1} } }

\* A text of four strides CHUNK_SIZE - OVERLAP_SIZE under the service's pair
\* with a '.' at the first offset each window may snap back to (the least
\* breakPoint that passes the test of line 424), so that every window that
\* can snap does.
SnapStride == (7 * CHUNK_SIZE) \div 10 + 2 - OVERLAP_SIZE

SnapChainText ==
    [len |-> 4 * (CHUNK_SIZE - OVERLAP_SIZE),
     dot |-> { k * SnapStride + (7 * CHUNK_SIZE) \div 10 + 1 : k \in 0..4 },
     nl  |-> {}]

\* breakPoint > start + this.CHUNK_SIZE * 0.7 (line 424).  The comparison is
\* made in integers; for every W used here W * 0.7 in IEEE doubles lies on
\* the same side of every integer as 7W/10.
SnapOkNoFloor(s, w, breakPoint) == breakPoint > s

SnapOk(s, w, breakPoint) == 10 * breakPoint > 10 * s + 7 * w

\* The value of `end` at line 429, from `start`.
EndOf(t, s, w) ==
    LET end == s + w
    IN  IF end < t.len
        THEN LET lastSentence  == LastIndexOfDot(t, end)
                 lastParagraph == LastIndexOfPara(t, end)
                 breakPoint    == Max({lastSentence, lastParagraph})
             IN  IF SnapOk(s, w, breakPoint) THEN breakPoint + 1 ELSE end
        ELSE end

\* The next value of `start` (line 430).
NextStartSkip(end, o) == end + o

NextStart(end, o) == end - o

SegParked ==
    /\ text = [len |-> 0, dot |-> {}, nl |-> {}]
    /\ W = CHUNK_SIZE
    /\ O = OVERLAP_SIZE
    /\ start = 0
    /\ chunks = <<>>
    /\ spans = <<>>
    /\ segpc = "parked"

SegStart ==
    /\ \E c \in SmallConfigs \cup { <<CHUNK_SIZE, OVERLAP_SIZE>> } :
          /\ W = c[1]
          /\ O = c[2]
          /\ text \in IF c \in SmallConfigs
                      THEN UNION { TextsOfLen(n) : n \in 0..MaxLen }
                      ELSE ServiceTexts \cup {SnapChainText}
    /\ start = 0
    /\ chunks = <<>>
    /\ spans = <<>>
    /\ segpc = "idle"

\* Lines 413-414: the call, up to the first while test.
SegCall ==
    /\ segpc = "idle"
    /\ segpc' = "loop"
    /\ start' = 0
    /\ chunks' = <<>>
    /\ spans' = <<>>
    /\ UNCHANGED <<text, W, O>>
    /\ UNCHANGED <<runVars, mergeVars, regVars, ctlVars>>

\* Lines 416-431: one iteration of the while loop.
SegStep ==
    /\ segpc = "loop"
    /\ start < text.len
    /\ Len(chunks) < MaxIter
    /\ LET end == EndOf(text, start, W)
       IN  /\ chunks' = Append(chunks, Slice(text, start, end))
           /\ spans' = Append(spans, <<start, end>>)
           /\ start' = NextStart(end, O)
    /\ UNCHANGED <<text, W, O, segpc>>
    /\ UNCHANGED <<runVars, mergeVars, regVars, ctlVars>>

\* Lines 416, 433: the while test fails and the windows are returned.
SegReturn ==
    /\ segpc = "loop"
    /\ ~(start < text.len)
    /\ segpc' = "done"
    /\ UNCHANGED <<text, W, O, start, chunks, spans>>
    /\ UNCHANGED <<runVars, mergeVars, regVars, ctlVars>>

-----------------------------------------------------------------------------
(* The orchestrator: createStreaming, with fetchBook, getSampleChunks,
   discoverCharacters and analyzeChunkWithRegistry *)

\* splitTextIntoChunks(text) as a function of the text: the windows the
\* loop of lines 416-431 pushes from `start` on.
RECURSIVE ChunksFrom(_, _, _, _)
ChunksFrom(t, s, w, o) ==
    IF s < t.len
    THEN <<Slice(t, s, EndOf(t, s, w))>>
         \o ByValue(NextStart(EndOf(t, s, w), o),
                    LAMBDA next : ChunksFrom(t, next, w, o))
    ELSE <<>>

splitTextIntoChunks(t) == ChunksFrom(t, 0, CHUNK_SIZE, OVERLAP_SIZE)

\* getSampleChunks(text, numSamples), lines 182-199.  substring(a, b) with
\* 0 <= a <= b is slice(a, b).
getSampleChunks(t, numSamples) ==
    <<Slice(t, 0, SAMPLE_SIZE)>>
    \o [k \in 1..(numSamples - 2) |->
           Slice(t, (t.len * k) \div numSamples,
                    (t.len * k) \div numSamples + SAMPLE_SIZE)]
    \o <<Slice(t, Max({0, t.len - SAMPLE_SIZE}), t.len)>>

\* The books fetchBook may return: the empty book, a book of one window and
\* a book of five windows (a batch of three and a batch of two).
RunTexts ==
    { [len |-> n, dot |-> {}, nl |-> {}] :
        n \in {0, CHUNK_SIZE - OVERLAP_SIZE,
               4 * (CHUNK_SIZE - OVERLAP_SIZE) + 1} }

\* What a chat completion call of the oracle may end in: the call rejects,
\* the completion has no content, the content is no JSON, or the content is
\* the JSON text of a value.  A JSON object is held with the set `has` of
\* the properties it has.
OracleFailures ==
    { [kind |-> "rejected"], [kind |-> "nocontent"], [kind |-> "unparseable"] }

\* The candidate lists a discovery completion may carry as `characters`.
\* An item is held with the flag `named`: whether it has a string `name`.
DiscoveryLists ==
    { <<[name |-> Capulet, mentions |-> 4, description |-> <<"d">>,
         named |-> TRUE]>>,
      <<[name |-> LadyCapulet, mentions |-> 5, description |-> <<"d", "d">>,
         named |-> TRUE]>>,
      <<[name |-> <<>>, mentions |-> 4, description |-> <<"d">>,
         named |-> FALSE]>> }

DiscoveryOutcomes ==
    OracleFailures
    \cup { [kind |-> "json", has |-> {}, characters |-> <<>>] }
    \cup { [kind |-> "json", has |-> {"characters"}, characters |-> l] :
             l \in DiscoveryLists }

\* discoverCharacters, lines 220-246, from what the completion call ended
\* in: `result.characters || []`, and [] from the catch.
discoverCharacters(outcome) ==
    IF outcome.kind = "json" /\ "characters" \in outcome.has
    THEN outcome.characters
    ELSE <<>>

\* The window results an analysis completion may carry.
RunCharacter ==
    [name |-> LadyCapulet, mentions |-> 2, description |-> <<"d", "d", "d">>]

RunInteraction ==
    [source |-> Capulet, target |-> LadyCapulet, weight |-> 1,
     contexts |-> <<"x">>]

AnalysisOutcomes ==
    OracleFailures
    \cup { [kind |-> "json", has |-> {},
            characters |-> <<>>, interactions |-> <<>>],
           [kind |-> "json", has |-> {"characters", "interactions"},
            characters |-> <<RunCharacter>>, interactions |-> <<>>],
           [kind |-> "json", has |-> {"characters", "interactions"},
            characters |-> <<RunCharacter>>,
            interactions |-> <<RunInteraction>>] }

\* analyzeChunkWithRegistry, lines 323-348, from what the completion call
\* ended in: the parsed content as it is, and the empty result from the
\* catch.
EmptyResult ==
    [has |-> {"characters", "interactions"},
     characters |-> <<>>, interactions |-> <<>>]

analyzeChunkWithRegistry(outcome) ==
    IF outcome.kind = "json"
    THEN [has |-> outcome.has,
          characters |-> outcome.characters,
          interactions |-> outcome.interactions]
    ELSE EmptyResult

\* Lines 149-168 throw a TypeError (name.trim() at line 250) at a candidate
\* without a string name.
FoldThrows(allCharacters) ==
    \E k \in 1..Len(allCharacters) : ~allCharacters[k].named

RECURSIVE FoldAll(_, _)
FoldAll(reg, allCharacters) ==
    IF allCharacters = <<>> THEN reg
    ELSE ByValue(FoldCandidate(reg, Head(allCharacters)),
                 LAMBDA next : ByValue(Tail(allCharacters),
                     LAMBDA rest : FoldAll(next, rest)))

\* buildCharacterRegistry from line 145 on: characterDiscoveries.flat(),
\* the fold and the filter.
RECURSIVE Flat(_)
Flat(lists) ==
    IF lists = <<>> THEN <<>> ELSE Head(lists) \o Flat(Tail(lists))

buildCharacterRegistry(characterDiscoveries) ==
    ByValue(Flat(characterDiscoveries), LAMBDA allCharacters :
        FilterRegistry(FoldAll(<<>>, allCharacters)))

\* mergeResults throws a TypeError (lines 367, 380: the for-of over a value
\* that is not iterable) at a window result without a characters or an
\* interactions array.
MergeThrows(results) ==
    \E r \in 1..Len(results) :
        results[r].has # {"characters", "interactions"}

\* The updates (StreamingUpdate, gateway.ts 12-18) createStreaming sends.
Progress(message) ==
    [type |-> "progress", message |-> message, batchIndex |-> -1]

FoundProgress(count) ==
    [type |-> "progress", message |-> "found", batchIndex |-> -1,
     count |-> count]

BatchProgress(batchIndex, totalBatches) ==
    [type |-> "progress", message |-> "batch", batchIndex |-> batchIndex,
     totalBatches |-> totalBatches]

BatchComplete(batchIndex, totalBatches, merged) ==
    [type |-> "batch_complete", batchIndex |-> batchIndex,
     totalBatches |-> totalBatches,
     data |-> [characters   |-> merged.characters,
               interactions |-> merged.interactions,
               batchIndex   |-> batchIndex,
               totalBatches |-> totalBatches,
               isComplete   |-> (batchIndex = totalBatches - 1)]]

AnalysisComplete(merged) ==
    [type |-> "analysis_complete", batchIndex |-> -1, data |-> merged]

\* The update of the catch, lines 114-117.
ErrorAsProgress == [type |-> "progress", batchIndex |-> -1]

ErrorUpdate == [type |-> "error", batchIndex |-> -1]

\* Math.ceil(chunks.length / this.BATCH_SIZE), line 65.
TotalBatchesFloor(n) == n \div BATCH_SIZE

TotalBatches(n) == (n + BATCH_SIZE - 1) \div BATCH_SIZE

\* The indexes (0-based) of the chunks of the batch that starts at i:
\* chunks.slice(i, i + BATCH_SIZE), line 70.
BatchOfWide(i, n) == {c \in i..(i + BATCH_SIZE) : c < n}

BatchOf(i, n) == {c \in i..(i + BATCH_SIZE - 1) : c < n}

RunParked ==
    /\ runpc = "parked"
    /\ fetched = FALSE
    /\ bookText = [len |-> 0, dot |-> {}, nl |-> {}]
    /\ pending = {}
    /\ resolved = <<>>
    /\ runRegistry = <<>>
    /\ runChunks = <<>>
    /\ batchStart = 0
    /\ runResults = <<>>
    /\ events = <<>>

RunInit ==
    /\ runpc = "start"
    /\ fetched = FALSE
    /\ bookText = [len |-> 0, dot |-> {}, nl |-> {}]
    /\ pending = {}
    /\ resolved = <<>>
    /\ runRegistry = <<>>
    /\ runChunks = <<>>
    /\ batchStart = 0
    /\ runResults = <<>>
    /\ events = <<>>

\* What the run does at the top of the for loop of line 68 with i = `i`,
\* `sent` being the updates sent so far: the next batch is announced and its
\* calls are issued (lines 69-84), or the loop is over and the final result
\* is sent (lines 106-110).
EnterLoop(i, chunksNow, results, registry, sent) ==
    IF i < Len(chunksNow)
    THEN /\ events' = Append(sent,
                BatchProgress(i \div BATCH_SIZE, TotalBatches(Len(chunksNow))))
         /\ pending' = BatchOf(i, Len(chunksNow))
         /\ resolved' = <<>>
         /\ runResults' = results
         /\ runpc' = "analyze"
    ELSE \E m \in {mergeResults(results, registry)} :
             /\ events' = Append(sent, AnalysisComplete(m.out))
             /\ runResults' = m.results
             /\ pending' = {}
             /\ resolved' = <<>>
             /\ runpc' = "complete"

\* Lines 48-55: the first update is sent and fetchBook is called.
RunStart ==
    /\ runpc = "start"
    /\ events' = Append(events, Progress("fetching"))
    /\ runpc' = "fetch"
    /\ UNCHANGED <<fetched, bookText, pending, resolved, runRegistry,
                   runChunks, batchStart, runResults>>
    /\ UNCHANGED <<mergeVars, regVars, segVars, ctlVars>>

\* Lines 124-128, 56, 133-142: the book arrives; buildCharacterRegistry
\* takes its samples, sends its update and issues one discovery call per
\* sample.
FetchOk ==
    /\ runpc = "fetch"
    /\ \E t \in RunTexts :
          /\ bookText' = t
          /\ pending' = 1..Len(getSampleChunks(t, NUM_SAMPLES))
    /\ fetched' = TRUE
    /\ resolved' = <<>>
    /\ events' = Append(events, Progress("discovering"))
    /\ runpc' = "discover"
    /\ UNCHANGED <<runRegistry, runChunks, batchStart, runResults>>
    /\ UNCHANGED <<mergeVars, regVars, segVars, ctlVars>>

\* Lines 124-127, 112-117: fetch rejects or the response is not ok; the
\* catch sends the error update.
FetchFail ==
    /\ runpc = "fetch"
    /\ events' = Append(events, ErrorUpdate)
    /\ runpc' = "errored"
    /\ UNCHANGED <<fetched, bookText, pending, resolved, runRegistry,
                   runChunks, batchStart, runResults>>
    /\ UNCHANGED <<mergeVars, regVars, segVars, ctlVars>>

\* Lines 220-246: one discovery call ends, and discoverCharacters returns.
DiscoverResolve ==
    /\ runpc = "discover"
    /\ \E k \in pending, outcome \in DiscoveryOutcomes :
          /\ pending' = pending \ {k}
          /\ resolved' = [j \in DOMAIN resolved \cup {k} |->
                            IF j = k THEN discoverCharacters(outcome)
                            ELSE resolved[j]]
    /\ UNCHANGED <<runpc, fetched, bookText, runRegistry, runChunks,
                   batchStart, runResults, events>>
    /\ UNCHANGED <<mergeVars, regVars, segVars, ctlVars>>

\* Lines 140-179, 58-84: Promise.all of the discovery calls is fulfilled;
\* the registry is built, the windows are cut and the loop is entered.  A
\* TypeError of the fold is caught at lines 112-117.
DiscoverDone ==
    /\ runpc = "discover"
    /\ pending = {}
    /\ \E characterDiscoveries \in {[k \in 1..NUM_SAMPLES |-> resolved[k]]} :
          IF FoldThrows(Flat(characterDiscoveries))
          THEN /\ events' = Append(events, ErrorUpdate)
               /\ runpc' = "errored"
               /\ UNCHANGED <<pending, resolved, runRegistry, runChunks,
                              runResults>>
          ELSE \E registry \in {buildCharacterRegistry(characterDiscoveries)},
                  cut \in {splitTextIntoChunks(bookText)} :
                  /\ runRegistry' = registry
                  /\ runChunks' = cut
                  /\ EnterLoop(0, cut, <<>>, registry,
                         Append(events, FoundProgress(Len(registry))))
    /\ UNCHANGED <<fetched, bookText, batchStart>>
    /\ UNCHANGED <<mergeVars, regVars, segVars, ctlVars>>

\* Lines 323-348: one analysis call of the batch ends, and
\* analyzeChunkWithRegistry returns.
AnalyzeResolve ==
    /\ runpc = "analyze"
    /\ \E c \in pending, outcome \in AnalysisOutcomes :
          /\ pending' = pending \ {c}
          /\ resolved' = [j \in DOMAIN resolved \cup {c} |->
                            IF j = c THEN analyzeChunkWithRegistry(outcome)
                            ELSE resolved[j]]
    /\ UNCHANGED <<runpc, fetched, bookText, runRegistry, runChunks,
                   batchStart, runResults, events>>
    /\ UNCHANGED <<mergeVars, regVars, segVars, ctlVars>>

\* allResults.push(...batchResults), line 85.
PushBatchReplace(results, batchResults) == batchResults

PushBatch(results, batchResults) == results \o batchResults

\* Lines 84-102: Promise.all of the batch is fulfilled; its results are
\* pushed in window order, merged and sent, and the pacing timer is set.  A
\* TypeError of mergeResults is caught at lines 112-117.
BatchDone ==
    /\ runpc = "analyze"
    /\ pending = {}
    /\ LET n            == Len(runChunks)
           batchIndex   == batchStart \div BATCH_SIZE
           batchResults == [j \in 1..Cardinality(BatchOf(batchStart, n)) |->
                               resolved[batchStart + j - 1]]
       IN  \E pushed \in {PushBatch(runResults, batchResults)} :
              IF MergeThrows(pushed)
              THEN /\ runResults' = pushed
                   /\ events' = Append(events, ErrorUpdate)
                   /\ runpc' = "errored"
              ELSE \E m \in {mergeResults(pushed, runRegistry)} :
                      /\ runResults' = m.results
                      /\ events' = Append(events,
                             BatchComplete(batchIndex, TotalBatches(n), m.out))
                      /\ runpc' = "pace"
    /\ UNCHANGED <<fetched, bookText, pending, resolved, runRegistry,
                   runChunks, batchStart>>
    /\ UNCHANGED <<mergeVars, regVars, segVars, ctlVars>>

\* Lines 102, 68: the pacing timer fires, i advances by BATCH_SIZE and the
\* loop is entered again.
PaceNever ==
    /\ runpc = "pace"
    /\ FALSE
    /\ UNCHANGED vars

PaceDone ==
    /\ runpc = "pace"
    /\ batchStart' = batchStart + BATCH_SIZE
    /\ EnterLoop(batchStart + BATCH_SIZE, runChunks, runResults, runRegistry,
                 events)
    /\ UNCHANGED <<fetched, bookText, runRegistry, runChunks>>
    /\ UNCHANGED <<mergeVars, regVars, segVars, ctlVars>>

-----------------------------------------------------------------------------
(* The controller: GutenbergController.analyzeStreaming (part_000 10-24),
   and the rooms of the gateway (gateway.ts 48-51) *)

\* String(n) for a natural number n: its decimal digits.
Digit(d) == <<"0", "1", "2", "3", "4", "5", "6", "7", "8", "9">>[d + 1]

RECURSIVE Decimal(_)
Decimal(n) ==
    IF n < 10 THEN <<Digit(n)>>
    ELSE Decimal(n \div 10) \o <<Digit(n % 10)>>

\* The bodies a request may carry: with no sessionId, with the empty string
\* and with a key of the client's.
Bodies ==
    { [given |-> FALSE, sessionId |-> <<>>],
      [given |-> TRUE,  sessionId |-> <<>>],
      [given |-> TRUE,  sessionId |-> <<"r">>] }

\* body.sessionId is truthy: a string that is not empty.
Truthy(body) == body.given /\ body.sessionId # <<>>

\* `session_${Date.now()}`, line 12.
GeneratedKey(now) ==
    <<"s", "e", "s", "s", "i", "o", "n", "_">> \o Decimal(now)

\* body.sessionId || `session_${Date.now()}`, line 12.
SessionIdOf(body, now) ==
    IF Truthy(body) THEN body.sessionId ELSE GeneratedKey(now)

CtlParked ==
    /\ clock = 0
    /\ requests = <<>>
    /\ published = <<>>

\* The server is up at some clock reading and has handled no request.
CtlStart ==
    /\ clock = 9
    /\ requests = <<>>
    /\ published = <<>>

\* A millisecond passes.
ClockTick ==
    /\ clock < MaxClock
    /\ clock' = clock + 1
    /\ UNCHANGED <<requests, published>>
    /\ UNCHANGED <<runVars, mergeVars, regVars, segVars>>

\* part_000 11-23: a request is handled.  createStreaming is called with the
\* session key and runs up to its first await, sending its first update
\* (service.ts 50-53) to the room of that key (gateway.ts 50).
AnalyzeStreaming ==
    /\ Len(requests) < MaxRequests
    /\ \E body \in Bodies :
          LET sessionId == SessionIdOf(body, clock)
          IN  /\ requests' = Append(requests,
                                [body |-> body, sessionId |-> sessionId])
              /\ published' = Append(published,
                                [room |-> sessionId, run |-> Len(requests) + 1])
    /\ UNCHANGED clock
    /\ UNCHANGED <<runVars, mergeVars, regVars, segVars>>

\* service.ts 58-117, gateway.ts 48-51: a run that was started sends a
\* further update to the room of the session key it was called with.
RunPublishes ==
    /\ Len(published) < MaxUpdates
    /\ \E run \in 1..Len(requests) :
          published' = Append(published,
                          [room |-> requests[run].sessionId, run |-> run])
    /\ UNCHANGED <<clock, requests>>
    /\ UNCHANGED <<runVars, mergeVars, regVars, segVars>>

-----------------------------------------------------------------------------
(* Specifications *)

\* One run of createStreaming.
Init == RunInit /\ MergeParked /\ RegParked /\ SegParked /\ CtlParked

Next ==
    \/ RunStart
    \/ FetchOk
    \/ FetchFail
    \/ DiscoverResolve
    \/ DiscoverDone
    \/ AnalyzeResolve
    \/ BatchDone
    \/ PaceDone

Spec == Init /\ [][Next]_vars

\* One run of createStreaming in which the fetch and every oracle call
\* eventually return, the pacing timer eventually fires, and a continuation
\* that can run eventually runs: the run does not stop while one of its
\* steps can be taken.
Fairness == WF_vars(Next)

SpecLive == Init /\ [][Next]_vars /\ Fairness

\* The segmenter alone.
InitSeg == SegStart /\ RegParked /\ MergeParked /\ RunParked /\ CtlParked

NextSeg == SegCall \/ SegStep \/ SegReturn

SpecSeg == InitSeg /\ [][NextSeg]_vars

\* The registry fold alone.
InitReg == RegStart /\ SegParked /\ MergeParked /\ RunParked /\ CtlParked

NextReg == RegFold \/ RegReturn

SpecReg == InitReg /\ [][NextReg]_vars

\* The merge engine alone, called as createStreaming calls it.
InitMerge == MergeStart /\ SegParked /\ RegParked /\ RunParked /\ CtlParked

NextMerge == MergePush \/ MergeCall

SpecMerge == InitMerge /\ [][NextMerge]_vars

\* The controller and the rooms.
InitCtl == CtlStart /\ SegParked /\ RegParked /\ MergeParked /\ RunParked

NextCtl == ClockTick \/ AnalyzeStreaming \/ RunPublishes

SpecCtl == InitCtl /\ [][NextCtl]_vars

-----------------------------------------------------------------------------
(* Claims about the segmenter, under SpecSeg *)

\* The iteration that produced window i snapped its end back to a break.
Snapped(i) == spans[i][2] # spans[i][1] + W

\* The offset of the text at which window i really ends (slice clamps).
WindowEnd(i) == Min({spans[i][2], text.len})

\* The segmenter runs under the service's own CHUNK_SIZE and OVERLAP_SIZE.
ServicePair == W = CHUNK_SIZE /\ O = OVERLAP_SIZE

\* C2: for every text shorter than the window length CHUNK_SIZE,
\* splitTextIntoChunks returns exactly one window, and that window is the
\* whole text.
C2_ShortTextOneWindow ==
    (ServicePair /\ segpc = "done" /\ text.len < W) =>
        (Len(chunks) = 1 /\ chunks[1] = text)

\* C8: every two consecutive windows returned overlap by exactly
\* OVERLAP_SIZE characters: the last O characters of the earlier window are
\* the first O characters of the later one, the last pair included.
C8_ExactOverlap ==
    (ServicePair /\ segpc = "done") =>
        \A i \in 1..(Len(chunks) - 1) :
            /\ chunks[i].len >= O
            /\ chunks[i + 1].len >= O
            /\ Slice(chunks[i], chunks[i].len - O, chunks[i].len)
                  = Slice(chunks[i + 1], 0, O)

\* C9: the windows returned cover the text without a gap: every window is
\* the slice of the text its iteration cut, the first window starts at offset
\* 0, each later window starts at or before the offset where the previous one
\* ended, the last window ends at the end of the text, and every character
\* position lies in some window.
C9_CoversText ==
    segpc = "done" =>
        /\ \A i \in 1..Len(chunks) :
              chunks[i] = Slice(text, spans[i][1], spans[i][2])
        /\ Len(chunks) > 0 => spans[1][1] = 0
        /\ \A i \in 1..(Len(chunks) - 1) :
              /\ spans[i + 1][1] >= 0
              /\ spans[i + 1][1] <= WindowEnd(i)
        /\ Len(chunks) > 0 => WindowEnd(Len(chunks)) = text.len
        /\ \A p \in 0..(text.len - 1) :
              \E i \in 1..Len(chunks) :
                  spans[i][1] <= p /\ p < WindowEnd(i)

\* C9 witness: a text cut into three or more windows, one of them snapped
\* back to a break, has been returned.
C9_Witness ==
    /\ segpc = "done"
    /\ Len(chunks) >= 3
    /\ \E i \in 1..Len(chunks) : Snapped(i)

\* One iteration of the while loop has just run.
Iterated == segpc = "loop" /\ segpc' = "loop" /\ spans' # spans

OverlapWithinSnapFloor == 10 * O <= 7 * W

CeilDiv(a, b) == (a + b - 1) \div b

\* C11 as stated: whenever 0 < O < W, splitTextIntoChunks returns at most
\* ceil(len / (W - O)) + 1 windows, also when window ends are snapped back
\* to a break.
C11_CountWithinStrideBound ==
    segpc = "done" => Len(chunks) <= CeilDiv(text.len, W - O) + 1

\* A lower bound on the amount by which one iteration moves `start` when
\* O <= 0.7 W: W - O when the end is not snapped, and when it is snapped
\* breakPoint >= start + ceil(0.7 W) (the product W * 0.7 of line 424 is a
\* double, which may lie just below an integer 0.7 W), so end - O is at
\* least start + ceil(0.7 W) + 1 - O.
LeastStride(w, o) == Min({w - o, CeilDiv(7 * w, 10) + 1 - o})

\* C11 amended: whenever 0 < O <= 0.7 W, the number of windows cut is at
\* every moment, and so on return, at most ceil(len / s) + 1, where s is
\* the least stride min(W - O, ceil(0.7 W) + 1 - O).
C11_CountWithinLeastStrideBound ==
    OverlapWithinSnapFloor =>
        /\ LeastStride(W, O) > 0
        /\ Len(chunks) <= CeilDiv(text.len, LeastStride(W, O)) + 1

\* C11 witness: under an overlap of at most 0.7 W a text has been returned
\* in more windows than ceil(len / (W - O)) + 1, ends snapped back.
C11_Witness ==
    /\ OverlapWithinSnapFloor
    /\ segpc = "done"
    /\ \E i \in 1..Len(chunks) : Snapped(i)
    /\ Len(chunks) > CeilDiv(text.len, W - O) + 1

-----------------------------------------------------------------------------
(* Claims about the registry fold, under SpecReg *)

\* The two names are similar but not equal, as areNamesSimilar sees them.
SimilarNotEqual(a, b) ==
    /\ ToLowerCase(Trim(a)) # ToLowerCase(Trim(b))
    /\ areNamesSimilar(Trim(a), Trim(b))

\* C1: when the second of two candidates has a name similar but not equal
\* to the first one's, the fold yields a single entry keyed by the longer of
\* the two names, with the shorter among its aliases and the mentions of
\* both; so 'Capulet' (4) followed by 'Lady Capulet' (5) is returned as
\* exactly one entry 'Lady Capulet' with alias 'Capulet' and 9 mentions.
C1_SimilarNamesFoldIntoLonger ==
    /\ (Len(folded) = 2 /\ SimilarNotEqual(folded[1].name, folded[2].name)) =>
          LET a == Trim(folded[1].name)
              b == Trim(folded[2].name)
              longer  == IF Len(b) > Len(a) THEN b ELSE a
              shorter == IF Len(b) > Len(a) THEN a ELSE b
          IN  /\ Len(characterRegistry) = 1
              /\ characterRegistry[1].name = longer
              /\ \E k \in 1..Len(characterRegistry[1].aliases) :
                    Trim(characterRegistry[1].aliases[k]) = shorter
              /\ characterRegistry[1].mentions
                    = folded[1].mentions + folded[2].mentions
    /\ (/\ regpc = "done"
        /\ Len(folded) = 2
        /\ folded[1].name = Capulet /\ folded[1].mentions = 4
        /\ folded[2].name = LadyCapulet /\ folded[2].mentions = 5) =>
          /\ Len(filteredRegistry) = 1
          /\ filteredRegistry[1].name = LadyCapulet
          /\ \E k \in 1..Len(filteredRegistry[1].aliases) :
                filteredRegistry[1].aliases[k] = Capulet
          /\ filteredRegistry[1].mentions = 9

-----------------------------------------------------------------------------
(* Claims about the merge engine, under SpecMerge *)

\* The elements of a sequence, as a set.
Range(xs) == {xs[i] : i \in 1..Len(xs)}

RECURSIVE SumWeights(_)
SumWeights(inters) ==
    IF inters = <<>> THEN 0
    ELSE Head(inters).weight + SumWeights(Tail(inters))

\* Every interaction the oracle reported in the first n window results.
RECURSIVE ReportedInteractions(_, _)
ReportedInteractions(results, n) ==
    IF n = 0 THEN <<>>
    ELSE ReportedInteractions(results, n - 1) \o results[n].interactions

\* Every character the first n window results report.
RECURSIVE ReportedCharacters(_, _)
ReportedCharacters(results, n) ==
    IF n = 0 THEN <<>>
    ELSE ReportedCharacters(results, n - 1) \o results[n].characters

\* The mentions the reports `chars` give to `name`, a report of none
\* counting as one.
RECURSIVE MentionsOf(_, _)
MentionsOf(chars, name) ==
    IF chars = <<>> THEN 0
    ELSE (IF Head(chars).name # name THEN 0
          ELSE IF Head(chars).mentions = 0 THEN 1 ELSE Head(chars).mentions)
         + MentionsOf(Tail(chars), name)

\* The weight the reports `inters` give to the pair source -> target.
RECURSIVE WeightOf(_, _, _)
WeightOf(inters, source, target) ==
    IF inters = <<>> THEN 0
    ELSE (IF Head(inters).source = source /\ Head(inters).target = target
          THEN Head(inters).weight ELSE 0)
         + WeightOf(Tail(inters), source, target)

\* The names of the registry.
RegistryNames(reg) == {reg[i].name : i \in 1..Len(reg)}

\* C4: two calls of mergeResults in succession on the same allResults and
\* the same registry return the same characters and interactions in the same
\* order.
C4_MergeIdempotent ==
    (Len(snapshots) = 2 /\ snapshots[1].n = snapshots[2].n) =>
        snapshots[1].out = snapshots[2].out

\* C4 witness: mergeResults has been called twice on the same allResults,
\* and the calls wrote into a contexts array of allResults on the way.
C4_Witness ==
    /\ Len(snapshots) = 2
    /\ snapshots[1].n = snapshots[2].n
    /\ allResults # received
    /\ snapshots[2].out.interactions # <<>>

\* C5: in every value mergeResults returns, no interaction's contexts holds
\* a string twice.
C5_ContextsDistinct ==
    \A k \in 1..Len(snapshots) :
        \A inter \in Range(snapshots[k].out.interactions) :
            \A i, j \in 1..Len(inter.contexts) :
                inter.contexts[i] = inter.contexts[j] => i = j

\* C6: in every value mergeResults returns, the source and the target of
\* every interaction are keys of the registry, and the interactions reported
\* with an unregistered endpoint add no weight: the weights returned sum to
\* the weights reported between registered endpoints.
C6_EndpointsInRegistry ==
    \A k \in 1..Len(snapshots) :
        /\ \A inter \in Range(snapshots[k].out.interactions) :
              /\ Registered(mergeRegistry, inter.source)
              /\ Registered(mergeRegistry, inter.target)
        /\ SumWeights(snapshots[k].out.interactions)
              = SumWeights(SelectSeq(
                    ReportedInteractions(received, snapshots[k].n),
                    LAMBDA inter :
                        /\ Registered(mergeRegistry, inter.source)
                        /\ Registered(mergeRegistry, inter.target)))

\* C6 witness: mergeResults has returned interactions for window results
\* that also reported an interaction with an unregistered endpoint.
C6_Witness ==
    /\ snapshots # <<>>
    /\ snapshots[Len(snapshots)].out.interactions # <<>>
    /\ \E inter \in Range(ReportedInteractions(received,
                                               snapshots[Len(snapshots)].n)) :
          ~Registered(mergeRegistry, inter.target)

\* C7: from one call of mergeResults to the next on the grown allResults,
\* every character returned is returned again with no fewer mentions and
\* every interaction returned is returned again with no smaller weight.
C7_MergeMonotone ==
    Len(snapshots) = 2 =>
        /\ snapshots[1].n <= snapshots[2].n
        /\ \A c \in Range(snapshots[1].out.characters) :
              \E d \in Range(snapshots[2].out.characters) :
                  d.name = c.name /\ d.mentions >= c.mentions
        /\ \A a \in Range(snapshots[1].out.interactions) :
              \E b \in Range(snapshots[2].out.interactions) :
                  /\ b.source = a.source
                  /\ b.target = a.target
                  /\ b.weight >= a.weight

\* C7 witness: between two calls the list grew, and a mention count and a
\* weight grew with it.
C7_Witness ==
    /\ Len(snapshots) = 2
    /\ snapshots[1].n < snapshots[2].n
    /\ \E c \in Range(snapshots[1].out.characters) :
          \E d \in Range(snapshots[2].out.characters) :
              d.name = c.name /\ d.mentions > c.mentions
    /\ \E a \in Range(snapshots[1].out.interactions) :
          \E b \in Range(snapshots[2].out.interactions) :
              b.source = a.source /\ b.target = a.target /\ b.weight > a.weight

\* C17: interactions are merged by the ordered pair (source, target): in
\* every value mergeResults returns, every ordered pair of registered names
\* that some window result reports has one entry of its own, whose weight
\* is the sum of the weights reported for exactly that pair; so with names
\* that contain '-', and for a -> b against b -> a.
C17_OrderedPairsKeptApart ==
    \A k \in 1..Len(snapshots) :
        LET inters == ReportedInteractions(received, snapshots[k].n)
            out    == snapshots[k].out.interactions
        IN  \A a \in Range(inters) :
                (Registered(mergeRegistry, a.source)
                   /\ Registered(mergeRegistry, a.target)) =>
                    /\ \E p \in 1..Len(out) :
                          /\ out[p].source = a.source
                          /\ out[p].target = a.target
                          /\ out[p].weight
                                = WeightOf(inters, a.source, a.target)
                    /\ \A p, q \in 1..Len(out) :
                          (/\ out[p].source = a.source
                           /\ out[p].target = a.target
                           /\ out[q].source = a.source
                           /\ out[q].target = a.target) => p = q

\* C18: a call of mergeResults leaves its arguments as they were: every
\* window result of allResults, the contexts of its interactions included,
\* and every entry of the registry, also when a pair is reported more than
\* once.
C18_MergeLeavesInputs ==
    [][merges' # merges =>
          /\ allResults' = allResults
          /\ mergeRegistry' = mergeRegistry]_vars

\* C20: in every value mergeResults returns, the source and the target of
\* every interaction are names of characters of that same value: no
\* interaction is returned with an endpoint that the filter of the
\* characters without mentions took out of the character list.
C20_EndpointsAmongCharacters ==
    \A k \in 1..Len(snapshots) :
        \A a \in Range(snapshots[k].out.interactions) :
            /\ \E c \in Range(snapshots[k].out.characters) : c.name = a.source
            /\ \E c \in Range(snapshots[k].out.characters) : c.name = a.target

-----------------------------------------------------------------------------
(* Claims about the run, under Spec *)

\* C3: an oracle call that fails, returns nothing or returns malformed
\* content never moves the run to Errored (only a failed fetch does), and a
\* run that completes has sent a batch_complete for every batch and, last,
\* an analysis_complete.
C3_OracleFailuresNeverFatal ==
    /\ runpc = "errored" => ~fetched
    /\ runpc = "complete" =>
          /\ \A b \in 0..(TotalBatches(Len(runChunks)) - 1) :
                \E k \in 1..Len(events) :
                    /\ events[k].type = "batch_complete"
                    /\ events[k].batchIndex = b
          /\ events[Len(events)].type = "analysis_complete"


\* The last update sent.
LastEvent(es) == es[Len(es)]

\* The step sends an update of this type.
Sends(type) ==
    /\ Len(events') = Len(events) + 1
    /\ LastEvent(events').type = type

\* `data` is the merge of `results` under `reg`: every registered character
\* some result mentions, with all its mentions, and every pair of registered
\* characters some result reports, with all its weight, and nothing else.
HoldsMergeOf(data, results, reg) ==
    LET chars  == ReportedCharacters(results, Len(results))
        inters == ReportedInteractions(results, Len(results))
    IN  /\ \A c \in Range(data.characters) :
              /\ c.name \in RegistryNames(reg)
              /\ c.mentions = MentionsOf(chars, c.name)
        /\ \A n \in RegistryNames(reg) :
              MentionsOf(chars, n) > 0 =>
                  \E c \in Range(data.characters) : c.name = n
        /\ \A a \in Range(data.interactions) :
              /\ a.source \in RegistryNames(reg)
              /\ a.target \in RegistryNames(reg)
              /\ a.weight = WeightOf(inters, a.source, a.target)
        /\ \A a \in Range(inters) :
              (a.source \in RegistryNames(reg) /\ a.target \in RegistryNames(reg))
                  => \E b \in Range(data.interactions) :
                         b.source = a.source /\ b.target = a.target

\* The call that returned this window result failed: the catch of
\* analyzeChunkWithRegistry returned the empty result.
CallFailed(result) == result = EmptyResult

\* The window result has the shape of an AnalysisResult.
WellFormed(result) == result.has = {"characters", "interactions"}

\* The results of the calls of the batch that starts at batchStart, in
\* window order, once all have resolved.
BatchResults ==
    [j \in 1..Cardinality(BatchOf(batchStart, Len(runChunks))) |->
        resolved[batchStart + j - 1]]

\* The await of line 84 is left: the batch is over.
BatchSettles == runpc = "analyze" /\ runpc' # "analyze"

\* C12: a batch_complete is sent only when every analysis call of its batch
\* has resolved, in whatever order; and a batch whose calls each failed or
\* returned a well-formed result ends in the batch_complete of that batch,
\* whose snapshot is the merge of the results of this batch and of all
\* earlier batches, the failed calls adding nothing.
C12_BatchCompleteAfterAllResolved ==
    [][/\ Sends("batch_complete") =>
             /\ pending = {}
             /\ DOMAIN resolved = BatchOf(batchStart, Len(runChunks))
             /\ BatchSettles
       /\ (BatchSettles /\ \A j \in DOMAIN BatchResults :
                               WellFormed(BatchResults[j])) =>
             /\ Sends("batch_complete")
             /\ LastEvent(events').batchIndex = batchStart \div BATCH_SIZE
             /\ HoldsMergeOf(LastEvent(events').data,
                             runResults \o BatchResults, runRegistry)
      ]_vars

\* C12 witness: the second batch is over with one call failed and its
\* sibling returned, after a first batch with a failed call; the snapshot
\* sent carries mentions and weight of both batches.
C12_Witness ==
    /\ runpc = "pace"
    /\ batchStart = BATCH_SIZE
    /\ Len(runResults) = BATCH_SIZE + 2
    /\ \E j \in 1..BATCH_SIZE : CallFailed(runResults[j])
    /\ CallFailed(runResults[BATCH_SIZE + 1])
    /\ ~CallFailed(runResults[BATCH_SIZE + 2])
    /\ LastEvent(events).type = "batch_complete"
    /\ \E c \in Range(LastEvent(events).data.characters) : c.mentions > 2
    /\ \E a \in Range(LastEvent(events).data.interactions) : a.weight > 1


\* The positions in `es` of the updates of this type.
EventsOfType(es, type) == {k \in 1..Len(es) : es[k].type = type}

\* C13: a run that fails (the fetch fails, or something throws during
\* orchestration) has sent exactly one error update, and a run that has not
\* failed none; nothing is sent after an error update; and no run sends both
\* an error and an analysis_complete.
C13_ErrorExactlyOnceAndLast ==
    /\ [](/\ runpc = "errored" => Cardinality(EventsOfType(events, "error")) = 1
          /\ runpc # "errored" => EventsOfType(events, "error") = {}
          /\ \A k \in EventsOfType(events, "error") : k = Len(events)
          /\ ~(/\ EventsOfType(events, "error") # {}
               /\ EventsOfType(events, "analysis_complete") # {}))
    /\ [][EventsOfType(events, "error") # {} => events' = events]_vars

\* C13 witness: a run has failed in its second batch, after the
\* batch_complete of the first.
C13_Witness ==
    /\ runpc = "errored"
    /\ fetched
    /\ EventsOfType(events, "batch_complete") # {}

\* The update at position k of a run that has not failed is the one the
\* order of the claim puts there: the three phase updates, then from
\* position 4 on the progress update and the batch_complete of batch 0, of
\* batch 1, ..., and an analysis_complete only as the last update of all.
InOrder(k) ==
    CASE k = 1 -> events[k] = Progress("fetching")
      [] k = 2 -> events[k] = Progress("discovering")
      [] k = 3 -> events[k].type = "progress" /\ events[k].message = "found"
      [] OTHER ->
            \/ /\ events[k].type = "analysis_complete"
               /\ k = Len(events)
               /\ k % 2 = 0
               /\ runpc = "complete"
            \/ /\ k % 2 = 0
               /\ events[k].type = "progress"
               /\ events[k].message = "batch"
               /\ events[k].batchIndex = (k - 4) \div 2
            \/ /\ k % 2 = 1
               /\ events[k].type = "batch_complete"
               /\ events[k].batchIndex = (k - 5) \div 2

\* C15: in a run that does not fail the updates come in the order
\* fetching, discovering, characters found, then for b = 0, 1, ... the
\* progress update of batch b and next the batch_complete of batch b, then
\* one analysis_complete, which is the last update; every window belongs to
\* one of the batches reported; and the batch_complete that says isComplete
\* is the one of the final batch and no other.
C15_EventOrder ==
    runpc # "errored" =>
        /\ \A k \in 1..Len(events) : InOrder(k)
        /\ runpc = "complete" =>
              LET n == Cardinality(EventsOfType(events, "batch_complete"))
              IN  /\ Len(events) = 2 * n + 4
                  /\ LastEvent(events).type = "analysis_complete"
                  /\ Len(runChunks) <= n * BATCH_SIZE
                  /\ Len(runChunks) > (n - 1) * BATCH_SIZE
                  /\ \A k \in EventsOfType(events, "batch_complete") :
                        events[k].data.isComplete <=> (k = Len(events) - 1)

\* C15 witness: a run of two batches has completed.
C15_Witness ==
    /\ runpc = "complete"
    /\ Cardinality(EventsOfType(events, "batch_complete")) = 2

\* The batch the window with index c (0-based) belongs to.
BatchIndexOf(c) == c \div BATCH_SIZE

\* The step issues analysis calls.
IssuesAnalysisCalls == runpc' = "analyze" /\ ~(pending' \subseteq pending)

\* C16: batches are strictly sequential.  At every moment at most
\* BATCH_SIZE oracle calls are outstanding and the outstanding analysis
\* calls are all of the batch the loop is at; and the calls of a batch are
\* issued only when no call is outstanding and, for a batch after the
\* first, when the last update sent is the batch_complete of the batch
\* before.
C16_BatchesSequential ==
    /\ [](/\ Cardinality(pending) <= BATCH_SIZE
          /\ runpc = "analyze" =>
                \A c \in pending :
                    /\ BatchIndexOf(c) = BatchIndexOf(batchStart)
                    /\ c < Len(runChunks)
          /\ runpc \in {"pace", "complete", "errored"} => pending = {})
    /\ [][IssuesAnalysisCalls =>
            /\ pending = {}
            /\ \A c \in pending' : BatchIndexOf(c) = BatchIndexOf(batchStart')
            /\ batchStart' = 0
               \/ /\ batchStart' = batchStart + BATCH_SIZE
                  /\ LastEvent(events).type = "batch_complete"
                  /\ LastEvent(events).batchIndex = BatchIndexOf(batchStart)
                  /\ Len(runResults) = batchStart']_vars

\* C16 witness: calls of the second batch are outstanding.
C16_Witness ==
    /\ runpc = "analyze"
    /\ batchStart = BATCH_SIZE
    /\ Cardinality(pending) = 2

\* The run has sent its terminal update and is over.
Terminated ==
    /\ runpc \in {"complete", "errored"}
    /\ events # <<>>
    /\ LastEvent(events).type \in {"analysis_complete", "error"}

\* C19: when the fetch and every oracle call eventually return, a started
\* run eventually sends a terminal update, analysis_complete or error: it
\* does not stay in Fetching, Discovering or Analyzing for ever.
C19_RunTerminates == <>Terminated

\* C19 witness: a run over a book of five windows has gone through both
\* batches and sent its terminal update.
C19_Witness ==
    /\ Terminated
    /\ Len(runChunks) = 5
    /\ Len(runResults) = 5

-----------------------------------------------------------------------------
(* Claims about the controller, under SpecCtl *)

\* C14: any two requests that supply no session key are given distinct
\* generated keys, also when both are handled at the same clock reading, and
\* no update of the run of one is emitted to the room of the other.
C14_GeneratedKeysDistinct ==
    \A i, j \in 1..Len(requests) :
        (i # j /\ ~Truthy(requests[i].body) /\ ~Truthy(requests[j].body)) =>
            /\ requests[i].sessionId # requests[j].sessionId
            /\ \A k \in 1..Len(published) :
                  published[k].run = i =>
                      published[k].room # requests[j].sessionId

=============================================================================
